---- MODULE Spec2Model ----
(***************************************************************************)
(* A model of the slangpy / ImGui render adapter (class ImguiAdapter).     *)
(*                                                                         *)
(* The package holds two versions of the class: imgui_adapter.py (the one  *)
(* app.py imports) and the older imgui_bundle.py.  The variable `variant`  *)
(* says which of the two a behaviour runs; it is chosen in Init and never  *)
(* changes.                                                                *)
(*                                                                         *)
(* The GPU library and the GUI toolkit are external.  Every call the       *)
(* adapter makes to them is appended, in program order, to the call log    *)
(* of the running operation (last.calls), so that the order and the        *)
(* arguments of the calls are part of the state.                           *)
(*                                                                         *)
(* Clip rectangle coordinates are floats in the code.  They are modelled   *)
(* as integers counting halves (3 stands for 1.5), so that int()'s         *)
(* truncation is not the identity.                                         *)
(***************************************************************************)
EXTENDS Integers, Sequences, FiniteSets, TLC

VARIABLES
    variant,      \* "imgui_adapter" or "imgui_bundle": the source file modelled
    constructed,  \* TRUE once __init__ has returned normally
    adapter,      \* the fields of the ImguiAdapter object and of imgui's io
    gui,          \* the draw data imgui.get_draw_data() yields for a frame
    last,         \* the last operation: its name, arguments, result and calls
    history,      \* what the callers and the GPU library have done so far
    app           \* the class attributes of App and the device of the last App

vars == <<variant, constructed, adapter, gui, last, history, app>>

-----------------------------------------------------------------------------
(* Bounds of the model.                                                    *)

MaxHandle == 2      \* texture ids (shared/native handle values) are 1..MaxHandle
MaxWidth == 2       \* window widths are 0..MaxWidth
MaxHeight == 1      \* window heights are 0..MaxHeight
MaxBatches == 2     \* draw lists (batches) per draw data
MaxCmds == 2        \* draw commands per draw list
MaxCoord == 120     \* largest clip coordinate (in halves) a render may produce
MaxFontHandle == 3  \* font texture ids are 1..MaxFontHandle where the device picks
MaxPaths == 4       \* most entries of App.shader_paths
MaxUserPaths == 2   \* most entries of one user_shader_paths argument

(* Program constants.                                                      *)

DefaultFbScale == 4         \* imgui_adapter.py: resize(..., fb_scale=4)
DefaultFbScaleBundle == 1   \* imgui_bundle.py: resize(..., fb_scale=1)

Variants == {"imgui_adapter", "imgui_bundle"}
Handles == 1..MaxHandle
Widths == 0..MaxWidth
Heights == 0..MaxHeight
FbScales == {DefaultFbScaleBundle, DefaultFbScale}

-----------------------------------------------------------------------------
(* Values.                                                                 *)

\* A texture object; kind tells a caller's texture from a font atlas created
\* by the adapter, handle is texture.shared_handle.value (native_handle.value
\* in imgui_bundle.py).  The GPU library chooses the handle.
Texture(kind, handle) == [kind |-> kind, handle |-> handle]
NoTexture == [kind |-> "none", handle |-> 0]
UserTextures == {Texture("user", h) : h \in Handles}
FontTextures == {Texture("font", h) : h \in Handles}

\* Python's None where a mapping value is expected.
NoEntry == [texture |-> NoTexture, sampler |-> FALSE]

NoFrameBuffer == [exists |-> FALSE, width |-> 0, height |-> 0]
NoConfig == [configured |-> FALSE, width |-> 0, height |-> 0]

\* The draw commands the GUI toolkit emits: one per texture id, each with a
\* clip rectangle <<x, y, z, w>> of its own, in halves.
ClipRectOf(h) == << -h, 1, 2 * h + 1, 2 * h + 3 >>

DrawCmd == { [texture_id |-> h, clip_rect |-> ClipRectOf(h)] : h \in Handles }

SeqsUpTo(S, n) == UNION { [1..k -> S] : k \in 0..n }

\* A draw list: the commands that share one vertex / index buffer.  The GUI
\* toolkit leaves a draw list without commands out of the draw data.
DrawLists == SeqsUpTo(DrawCmd, MaxCmds) \ { << >> }
\* ImDrawData.cmd_lists
DrawDatas == SeqsUpTo(DrawLists, MaxBatches)

-----------------------------------------------------------------------------
(* The dict self._textures, as the set of its items.                       *)

DictHas(d, k) == \E e \in d : e.id = k

DictGet(d, k) ==
    IF DictHas(d, k) THEN (CHOOSE e \in d : e.id = k).value ELSE NoEntry

\* A store that adds an item and keeps the one the key had.
DictSetKeepsOld(d, k, v) == d \cup {[id |-> k, value |-> v]}

DictSet(d, k, v) == {e \in d : e.id # k} \cup {[id |-> k, value |-> v]}

DictDel(d, k) == {e \in d : e.id # k}

DictKeys(d) == {e.id : e \in d}

-----------------------------------------------------------------------------
(* The operations of the adapter, as functions of an execution context     *)
(* x = [a |-> the adapter's fields, calls |-> the external calls so far].  *)

Call(x, c) == [x EXCEPT !.calls = Append(@, c)]

\* register_texture(texture).  a.registered is a history field: the ids whose
\* most recent register / unregister call was a register.
register_texture(x, texture) ==
    LET texture_id == texture.handle
        x1 == IF variant = "imgui_adapter"
              THEN Call(x, [call |-> "create_sampler"])
              ELSE x
        value == [texture |-> texture, sampler |-> variant = "imgui_adapter"]
    IN  [x1 EXCEPT !.a.textures = DictSet(@, texture_id, value),
                   !.a.registered = @ \cup {texture_id}]

\* unregister_texture(texture)
unregister_texture(x, texture) ==
    LET texture_id == texture.handle
    IN  [x EXCEPT !.a.textures =
                      IF DictHas(@, texture_id) THEN DictDel(@, texture_id) ELSE @,
                  !.a.registered = @ \ {texture_id}]

\* A refresh that leaves the entry of the font texture it replaces.
refresh_keeps_old(x, handle) ==
    LET font == Texture("font", handle)
        x2 == Call(x, [call |-> "create_texture", label |-> "imgui_font_texture"])
        x3 == register_texture([x2 EXCEPT !.a.font_texture = font], font)
    IN  [x3 EXCEPT !.a.tex_id = x3.a.font_texture.handle]

\* refresh_font_texture(); handle is the id the GPU library gives the new
\* font texture.
refresh_font_texture(x, handle) ==
    LET x1 == IF x.a.font_texture # NoTexture
              THEN unregister_texture(x, x.a.font_texture)
              ELSE x
        font == Texture("font", handle)
        x2 == Call(x1, [call |-> "create_texture", label |-> "imgui_font_texture"])
        x3 == register_texture([x2 EXCEPT !.a.font_texture = font], font)
    IN  [x3 EXCEPT !.a.tex_id = x3.a.font_texture.handle]

\* A frame buffer created with its dimensions exchanged.
CreateFrameBufferSwapped(width, height) ==
    [exists |-> TRUE, width |-> height, height |-> width]

\* _create_frame_buffer(width, height)
CreateFrameBuffer(width, height) ==
    [exists |-> TRUE, width |-> width, height |-> height]

\* surface.configure(width, height) followed by the creation of the frame
\* buffer; each call is logged with the state of the GPU queue at the call.
ConfigureAndCreate(x, sw, sh, fw, fh) ==
    LET x1 == Call(x, [call |-> "configure", width |-> sw, height |-> sh,
                       pending |-> x.a.pending])
        x2 == Call(x1, [call |-> "create_texture", label |-> "output_texture",
                        width |-> fw, height |-> fh, pending |-> x.a.pending])
    IN  [x2 EXCEPT !.a.surface_config =
                       [configured |-> TRUE, width |-> sw, height |-> sh],
                   !.a.frame_buffer = CreateFrameBuffer(fw, fh)]

\* No wait at all.
NoDeviceWait(x) == x

\* device.wait(): all submitted GPU work has completed when it returns.
DeviceWait(x) ==
    [Call(x, [call |-> "wait", pending |-> x.a.pending]) EXCEPT !.a.pending = FALSE]

\* resize() that waits for the device after it has configured the surface.
resize_waits_last(x, width, height, fb_scale) ==
    LET x1 == [x EXCEPT !.a.display_size = <<width, height>>,
                        !.a.display_framebuffer_scale = fb_scale]
        x2 == IF width > 0 /\ height > 0
              THEN IF variant = "imgui_adapter"
                   THEN ConfigureAndCreate(x1, width * fb_scale, height * fb_scale,
                                           width * fb_scale, height * fb_scale)
                   ELSE ConfigureAndCreate(x1, width, height, width, height)
              ELSE [Call(x1, [call |-> "unconfigure", pending |-> x1.a.pending])
                       EXCEPT !.a.surface_config = NoConfig]
    IN  DeviceWait(x2)

\* resize() that takes a window with one positive dimension for a visible one.
resize_either_positive(x, width, height, fb_scale) ==
    LET x1 == [x EXCEPT !.a.display_size = <<width, height>>,
                        !.a.display_framebuffer_scale = fb_scale]
        x2 == DeviceWait(x1)
    IN  IF width > 0 \/ height > 0
        THEN IF variant = "imgui_adapter"
             THEN ConfigureAndCreate(x2, width * fb_scale, height * fb_scale,
                                     width * fb_scale, height * fb_scale)
             ELSE ConfigureAndCreate(x2, width, height, width, height)
        ELSE [Call(x2, [call |-> "unconfigure", pending |-> x2.a.pending])
                 EXCEPT !.a.surface_config = NoConfig]

\* resize(width, height, fb_scale)
resize(x, width, height, fb_scale) ==
    LET x1 == [x EXCEPT !.a.display_size = <<width, height>>,
                        !.a.display_framebuffer_scale = fb_scale]
        x2 == DeviceWait(x1)
    IN  IF width > 0 /\ height > 0
        THEN IF variant = "imgui_adapter"
             THEN ConfigureAndCreate(x2, width * fb_scale, height * fb_scale,
                                     width * fb_scale, height * fb_scale)
             ELSE ConfigureAndCreate(x2, width, height, width, height)
        ELSE [Call(x2, [call |-> "unconfigure", pending |-> x2.a.pending])
                 EXCEPT !.a.surface_config = NoConfig]

\* The fields before __init__ has run.
Blank ==
    [textures |-> {}, registered |-> {}, font_texture |-> NoTexture, tex_id |-> 0,
     display_size |-> <<0, 0>>, display_framebuffer_scale |-> 1,
     surface_config |-> NoConfig, frame_buffer |-> NoFrameBuffer,
     pending |-> FALSE]

\* __init__(window, device) for a window of the given size, once the check
\* for a GUI context has passed.
init(width, height, handle) ==
    LET x0 == Call([a |-> Blank, calls |-> <<>>], [call |-> "create_surface"])
        x1 == IF variant = "imgui_bundle"
              THEN ConfigureAndCreate(x0, width, height, width, height)
              ELSE x0
        x2 == Call(x1, [call |-> "create_render_pipeline"])
        x3 == refresh_font_texture(x2, handle)
    IN  resize(x3, width, height,
               IF variant = "imgui_adapter" THEN DefaultFbScale
               ELSE DefaultFbScaleBundle)

-----------------------------------------------------------------------------
(* The input handlers.  What they write goes to the GUI toolkit's io        *)
(* object, which no other operation of the adapter reads back: a write is   *)
(* logged as a call.                                                        *)

ReverseKeyMap ==
    [tab |-> "tab", left |-> "left_arrow", right |-> "right_arrow",
     up |-> "up_arrow", down |-> "down_arrow", page_up |-> "page_up",
     page_down |-> "page_down", home |-> "home", end |-> "end",
     delete |-> "delete", space |-> "space", backspace |-> "backspace",
     enter |-> "enter", escape |-> "escape"]

\* The keyboard events of the model: two keys of the map and one outside it.
KeyboardEvents ==
    [key : {"tab", "left", "a"}, type : {"key_press", "key_release", "key_repeat"}]

\* key_event(event)
key_event(x, event) ==
    LET key == event.key
    IN  IF key \in DOMAIN ReverseKeyMap
        THEN Call(x, [call |-> "add_key_event", key |-> ReverseKeyMap[key],
                      down |-> event.type = "key_press"])
        ELSE x

\* The mouse events of the model.
MouseEvents ==
    [type : {"move", "button_down", "button_up", "scroll"},
     button : {"left", "right", "middle", "unknown"}]

\* mouse_event(event)
mouse_event(x, event) ==
    LET x1 == IF event.type = "move" THEN Call(x, [call |-> "set_mouse_pos"]) ELSE x
        down == event.type = "button_down"
        x2 == IF event.type \in {"button_down", "button_up"}
              THEN IF event.button = "left"
                   THEN Call(x1, [call |-> "set_mouse_down", index |-> 0, down |-> down])
                   ELSE IF event.button = "right"
                   THEN Call(x1, [call |-> "set_mouse_down", index |-> 1, down |-> down])
                   ELSE IF event.button = "middle"
                   THEN Call(x1, [call |-> "set_mouse_down", index |-> 2, down |-> down])
                   ELSE x1
              ELSE x1
    IN  IF event.type = "scroll"
        THEN Call(Call(x2, [call |-> "add_mouse_wheel"]), [call |-> "add_mouse_wheel_h"])
        ELSE x2

\* unicode_input(codepoint)
unicode_input(x, codepoint) ==
    Call(x, [call |-> "add_input_character", codepoint |-> codepoint])

-----------------------------------------------------------------------------
(* render(draw_data)                                                       *)

\* A conversion that rounds down.
IntOfFloor(v) == v \div 2

\* int(v) of a float counted in halves: truncation toward zero.
IntOf(v) == IF v >= 0 THEN v \div 2 ELSE -((-v) \div 2)

\* ImDrawData.scale_clip_rects(fb_scale): every command's clip rectangle is
\* multiplied, in place, by the scale.
ScaleRect(r, scale) == [i \in 1..4 |-> r[i] * scale]

scale_clip_rects(draw_data, scale) ==
    [b \in 1..Len(draw_data) |->
        [c \in 1..Len(draw_data[b]) |->
            [draw_data[b][c] EXCEPT !.clip_rect = ScaleRect(@, scale)]]]

\* The clearing render pass of imgui_adapter.py (imgui_bundle.py has none).
ClearPass ==
    IF variant = "imgui_adapter"
    THEN << [call |-> "begin_render_pass", load_op |-> "clear", batch |-> 0, cmd |-> 0] >>
    ELSE << >>

\* The scissor rectangle of a command: <<min_x, min_y, max_x, max_y>>.
ScissorRect(command) ==
    << IntOf(command.clip_rect[1]), IntOf(command.clip_rect[2]),
       IntOf(command.clip_rect[3]), IntOf(command.clip_rect[4]) >>

\* spy.Viewport.from_size(self.frame_buffer.width, self.frame_buffer.height)
Viewport(a) ==
    [x |-> 0, y |-> 0, width |-> a.frame_buffer.width, height |-> a.frame_buffer.height]

\* The body of "for command in commands.cmd_buffer" for one registered command.
DrawCalls(a, command, b, c) ==
    << [call |-> "begin_render_pass",
        load_op |-> IF variant = "imgui_adapter" THEN "load" ELSE "default",
        batch |-> b, cmd |-> c],
       [call |-> "set_render_state", batch |-> b, cmd |-> c,
        texture |-> DictGet(a.textures, command.texture_id).texture,
        viewport |-> Viewport(a), scissor |-> ScissorRect(command)],
       [call |-> IF variant = "imgui_adapter" THEN "draw_indexed" ELSE "draw",
        batch |-> b, cmd |-> c] >>

\* The test turned round: "texture_sampler is not None".
Registered(a, command) == DictGet(a.textures, command.texture_id) # NoEntry

\* The test "texture_sampler is None" on self._textures.get(command.texture_id).
Unregistered(a, command) == DictGet(a.textures, command.texture_id) = NoEntry

\* A loop that skips an unregistered command, draws the rest of the batch and
\* reports the error afterwards.
RECURSIVE CommandLoopSkips(_, _, _, _)
CommandLoopSkips(a, commands, b, c) ==
    IF c > Len(commands) THEN [calls |-> << >>, error_at |-> <<0, 0>>]
    ELSE LET rest == CommandLoopSkips(a, commands, b, c + 1)
         IN  IF Unregistered(a, commands[c])
             THEN [calls |-> rest.calls, error_at |-> <<b, c>>]
             ELSE [calls |-> DrawCalls(a, commands[c], b, c) \o rest.calls,
                   error_at |-> rest.error_at]

\* A loop that draws the first command of a batch only.
RECURSIVE CommandLoopDrawsFirst(_, _, _, _)
CommandLoopDrawsFirst(a, commands, b, c) ==
    IF c > Len(commands) THEN [calls |-> << >>, error_at |-> <<0, 0>>]
    ELSE IF Unregistered(a, commands[c])
         THEN [calls |-> << >>, error_at |-> <<b, c>>]
         ELSE LET rest == CommandLoopDrawsFirst(a, commands, b, c + 1)
              IN  [calls |-> (IF c = 1 THEN DrawCalls(a, commands[c], b, c) ELSE << >>)
                                \o rest.calls,
                   error_at |-> rest.error_at]

\* The inner loop over the commands of batch b, from command c on:
\* [calls, error_at], error_at = <<b, c>> where ValueError is raised, <<0, 0>>
\* when the loop ends normally.
RECURSIVE CommandLoop(_, _, _, _)
CommandLoop(a, commands, b, c) ==
    IF c > Len(commands) THEN [calls |-> << >>, error_at |-> <<0, 0>>]
    ELSE IF Unregistered(a, commands[c])
         THEN [calls |-> << >>, error_at |-> <<b, c>>]
         ELSE LET rest == CommandLoop(a, commands, b, c + 1)
              IN  [calls |-> DrawCalls(a, commands[c], b, c) \o rest.calls,
                   error_at |-> rest.error_at]

\* The outer loop "for commands in draw_data.cmd_lists", from batch b on.
RECURSIVE BatchLoop(_, _, _)
BatchLoop(a, draw_data, b) ==
    IF b > Len(draw_data) THEN [calls |-> << >>, error_at |-> <<0, 0>>]
    ELSE LET buffers == << [call |-> "create_buffer", label |-> "imgui_vertex_buffer", batch |-> b],
                           [call |-> "create_buffer", label |-> "imgui_index_buffer", batch |-> b] >>
             inner == CommandLoop(a, draw_data[b], b, 1)
         IN  IF inner.error_at # <<0, 0>>
             THEN [calls |-> buffers \o inner.calls, error_at |-> inner.error_at]
             ELSE LET rest == BatchLoop(a, draw_data, b + 1)
                  IN  [calls |-> buffers \o inner.calls \o rest.calls,
                       error_at |-> rest.error_at]

\* A frame presented before its command buffer is submitted.
EndOfFramePresentsFirst ==
    << [call |-> "blit"], [call |-> "present"], [call |-> "submit_command_buffer"] >>

\* The calls that end a frame.
EndOfFrame ==
    << [call |-> "blit"], [call |-> "submit_command_buffer"], [call |-> "present"] >>

\* render(draw_data).  acquired is what surface.acquire_next_image() does:
\* "image" on a configured surface; on an unconfigured one the GPU library
\* either returns no image ("null") or raises ("raises").
\* The result: [result, error_at, calls, draw_data (the object after the
\* call), pending].
render(a, draw_data, acquired) ==
    LET head == << [call |-> "acquire_next_image",
                    configured |-> a.surface_config.configured,
                    frame_buffer |-> a.frame_buffer.exists] >>
        width == a.display_size[1]
        height == a.display_size[2]
        scaled == IF variant = "imgui_adapter"
                  THEN scale_clip_rects(draw_data, a.display_framebuffer_scale)
                  ELSE draw_data
        loop == BatchLoop(a, scaled, 1)
        body == head \o << [call |-> "create_command_encoder"] >> \o ClearPass \o loop.calls
    IN  IF acquired = "raises"
        THEN [result |-> "SurfaceError", error_at |-> <<0, 0>>, calls |-> head,
              draw_data |-> draw_data, pending |-> a.pending]
        ELSE IF width = 0 \/ height = 0
        THEN [result |-> "ZeroDivisionError", error_at |-> <<0, 0>>,
              calls |-> head \o << [call |-> "create_command_encoder"] >>,
              draw_data |-> draw_data, pending |-> a.pending]
        ELSE IF loop.error_at # <<0, 0>>
        THEN [result |-> "ValueError", error_at |-> loop.error_at, calls |-> body,
              draw_data |-> scaled, pending |-> a.pending]
        ELSE [result |-> "ok", error_at |-> <<0, 0>>, calls |-> body \o EndOfFrame,
              draw_data |-> scaled, pending |-> TRUE]

AcquireOutcomes(a) ==
    IF a.surface_config.configured THEN {"image"} ELSE {"null", "raises"}

-----------------------------------------------------------------------------------------------------------------------------------------------------
(* The state machine.                                                      *)

NoDrawData == << >>

Done(op, arg, result, calls) ==
    [op |-> op, arg |-> arg, result |-> result, error_at |-> <<0, 0>>,
     calls |-> calls, draw_data |-> NoDrawData]

\* The keys of REVERSE_KEY_MAP that the keyboard events of the model press.
TrackedKeys == { e.key : e \in KeyboardEvents } \cap DOMAIN ReverseKeyMap

\* history.font_ids: the ids of the font textures created so far.
\* history.distinct: TRUE while no texture has carried the id of another one:
\*   no caller's texture had the id of a font texture, and no font texture
\*   was given the id of an earlier font texture or of a mapping entry.
\* history.reported[k]: the key state last passed to io.add_key_event for k.
\* history.event[k]: the most recent press or release event for k.
NoHistory ==
    [font_ids |-> {}, distinct |-> TRUE,
     reported |-> [k \in TrackedKeys |-> "none"],
     event |-> [k \in TrackedKeys |-> "none"]]

\* The device has created a font texture with this id.
FontCreated(h, a, handle) ==
    [h EXCEPT !.font_ids = @ \cup {handle},
              !.distinct = @ /\ handle \notin h.font_ids
                             /\ handle \notin DictKeys(a.textures) \ {a.font_texture.handle}]

\* A caller has passed a texture of its own.
UserTexture(h, texture) ==
    [h EXCEPT !.distinct = @ /\ texture.handle \notin h.font_ids]

\* The window has delivered a keyboard event.
KeyDelivered(h, event) ==
    IF event.key \in TrackedKeys
    THEN [h EXCEPT !.reported[event.key] =
                       IF event.type = "key_press" THEN "down" ELSE "up",
                   !.event[event.key] =
                       IF event.type \in {"key_press", "key_release"}
                       THEN event.type ELSE @]
    ELSE h

\* slangpy_imgui_bundle.GUI_SHADER_PATH
GuiShaderPath == "gui_shader_path"

\* The class attribute App.shader_paths as the module is loaded; no device yet.
NoApp == [shader_paths |-> << GuiShaderPath >>, include_paths |-> << >>]

\* Before ImguiAdapter(window, device) is called.  gui is the content of the
\* frames the GUI toolkit will produce.
InitOn(draw_datas) ==
    /\ variant \in Variants
    /\ constructed = FALSE
    /\ adapter = Blank
    /\ gui \in draw_datas
    /\ last = Done("none", <<>>, "ok", << >>)
    /\ history = NoHistory
    /\ app = NoApp

\* ImguiAdapter(window, device).  context: whether imgui.get_current_context()
\* returns a context; width, height: the window's size; handle: the id of the
\* font texture the device creates.
Construct(context, width, height, handle) ==
    /\ ~constructed
    /\ variant = "imgui_bundle" => context
    /\ IF ~context
       THEN /\ last' = Done("__init__", <<width, height>>, "RuntimeError", << >>)
            /\ UNCHANGED <<constructed, adapter, history>>
       ELSE LET x == init(width, height, handle)
            IN  /\ adapter' = x.a
                /\ constructed' = TRUE
                /\ last' = Done("__init__", <<width, height>>, "ok", x.calls)
                /\ history' = FontCreated(history, Blank, handle)
    /\ UNCHANGED <<variant, gui, app>>

Context == [a |-> adapter, calls |-> << >>]

RegisterTexture(texture) ==
    /\ constructed
    /\ LET x == register_texture(Context, texture)
       IN  /\ adapter' = x.a
           /\ last' = Done("register_texture", texture, "ok", x.calls)
    /\ history' = UserTexture(history, texture)
    /\ UNCHANGED <<variant, constructed, gui, app>>

UnregisterTexture(texture) ==
    /\ constructed
    /\ LET x == unregister_texture(Context, texture)
       IN  /\ adapter' = x.a
           /\ last' = Done("unregister_texture", texture, "ok", x.calls)
    /\ history' = UserTexture(history, texture)
    /\ UNCHANGED <<variant, constructed, gui, app>>

RefreshFontTexture(handle) ==
    /\ constructed
    /\ LET x == refresh_font_texture(Context, handle)
       IN  /\ adapter' = x.a
           /\ last' = Done("refresh_font_texture", handle, "ok", x.calls)
    /\ history' = FontCreated(history, adapter, handle)
    /\ UNCHANGED <<variant, constructed, gui, app>>

Resize(width, height, fb_scale) ==
    /\ constructed
    /\ LET x == resize(Context, width, height, fb_scale)
       IN  /\ adapter' = x.a
           /\ last' = Done("resize", <<width, height, fb_scale>>, "ok", x.calls)
    /\ UNCHANGED <<variant, constructed, gui, history, app>>

KeyEvent(event) ==
    /\ constructed
    /\ last' = Done("key_event", event, "ok", key_event(Context, event).calls)
    /\ history' = KeyDelivered(history, event)
    /\ UNCHANGED <<variant, constructed, adapter, gui, app>>

MouseEvent(event) ==
    /\ constructed
    /\ last' = Done("mouse_event", event, "ok", mouse_event(Context, event).calls)
    /\ UNCHANGED <<variant, constructed, adapter, gui, history, app>>

UnicodeInput(codepoint) ==
    /\ constructed
    /\ last' = Done("unicode_input", codepoint, "ok", unicode_input(Context, codepoint).calls)
    /\ UNCHANGED <<variant, constructed, adapter, gui, history, app>>

\* App.on_keyboard_event(event): key_event(event), then
\* unicode_input(event.codepoint).
OnKeyboardEvent(event, codepoint) ==
    /\ constructed
    /\ last' = Done("on_keyboard_event", event, "ok",
                    unicode_input(key_event(Context, event), codepoint).calls)
    /\ history' = KeyDelivered(history, event)
    /\ UNCHANGED <<variant, constructed, adapter, gui, app>>

\* The clip coordinates stay within the model's range.
InRange(draw_data) ==
    \A b \in 1..Len(draw_data) : \A c \in 1..Len(draw_data[b]) : \A i \in 1..4 :
        /\ draw_data[b][c].clip_rect[i] <= MaxCoord
        /\ draw_data[b][c].clip_rect[i] >= -MaxCoord

\* A render that gives up the surface when the frame fails.
RenderUnconfigures(draw_data, acquired) ==
    /\ constructed
    /\ LET r == render(adapter, draw_data, acquired)
       IN  /\ InRange(r.draw_data)
           /\ adapter' = [adapter EXCEPT !.pending = r.pending,
                                         !.surface_config =
                                             IF r.result = "ok" THEN @ ELSE NoConfig]
           /\ last' = [op |-> "render", arg |-> draw_data, result |-> r.result,
                       error_at |-> r.error_at, calls |-> r.calls,
                       draw_data |-> r.draw_data]
    /\ UNCHANGED <<variant, constructed, gui, history, app>>

Render(draw_data, acquired) ==
    /\ constructed
    /\ LET r == render(adapter, draw_data, acquired)
       IN  /\ InRange(r.draw_data)
           /\ adapter' = [adapter EXCEPT !.pending = r.pending]
           /\ last' = [op |-> "render", arg |-> draw_data, result |-> r.result,
                       error_at |-> r.error_at, calls |-> r.calls,
                       draw_data |-> r.draw_data]
    /\ UNCHANGED <<variant, constructed, gui, history, app>>

\* render() of the draw data the GUI toolkit has just produced.
RenderFresh ==
    \E acquired \in AcquireOutcomes(adapter) : Render(gui, acquired)

\* render() of the draw data object the previous render() call was given.
RenderAgain ==
    /\ last.op = "render"
    /\ \E acquired \in AcquireOutcomes(adapter) : Render(last.draw_data, acquired)

\* The fb_scale resize() takes when the caller gives none.
DefaultScale ==
    IF variant = "imgui_adapter" THEN DefaultFbScale ELSE DefaultFbScaleBundle

NextOn(font_handles, fb_scales) ==
    \/ \E context \in BOOLEAN, width \in Widths \ {0}, height \in Heights \ {0},
          handle \in font_handles : Construct(context, width, height, handle)
    \/ \E texture \in UserTextures : RegisterTexture(texture)
    \/ \E texture \in UserTextures : UnregisterTexture(texture)
    \/ \E handle \in font_handles : RefreshFontTexture(handle)
    \/ \E width \in Widths, height \in Heights, fb_scale \in fb_scales :
          Resize(width, height, fb_scale)
    \/ RenderFresh
    \/ RenderAgain

\* The frames of every shape, callers that leave fb_scale to its default, and
\* a device that gives every font texture the same id.
Init == InitOn(DrawDatas)
Next == NextOn({MaxHandle}, {DefaultScale})
Spec == Init /\ [][Next]_vars

\* Callers that pass any fb_scale and a device that gives a font texture any
\* id, with frames of at most one command.
SmallDrawDatas == { d \in DrawDatas : Len(d) <= 1 /\ \A b \in 1..Len(d) : Len(d[b]) <= 1 }
InitState == InitOn(SmallDrawDatas)
NextState == NextOn(Handles, FbScales)
SpecState == InitState /\ [][NextState]_vars

\* Every operation of the adapter, the input handlers included, with frames
\* of at most one command and a keyboard of one mapped and one unmapped key.
NextInput ==
    \/ Next
    \/ \E event \in { e \in KeyboardEvents : e.key # "left" } : KeyEvent(event)
    \/ \E event \in MouseEvents : MouseEvent(event)
    \/ \E codepoint \in {0, 65} : UnicodeInput(codepoint)
SpecInput == InitState /\ [][NextInput]_vars

\* The user_shader_paths arguments of the model.
UserShaderPaths == SeqsUpTo({"a", "b"}, MaxUserPaths)

\* App(user_shader_paths) for a window of the given size: the paths are
\* appended to self.shader_paths, which is the list of the class; the device
\* is created with that list as its include paths; then a GUI context is
\* created and the adapter of the new App is constructed.
NewApp(user_shader_paths, width, height, handle) ==
    /\ variant = "imgui_adapter"
    /\ Len(app.shader_paths) + Len(user_shader_paths) <= MaxPaths
    /\ LET shader_paths == app.shader_paths \o user_shader_paths
           x == init(width, height, handle)
       IN  /\ app' = [shader_paths |-> shader_paths, include_paths |-> shader_paths]
           /\ adapter' = x.a
           /\ constructed' = TRUE
           /\ history' = FontCreated(NoHistory, Blank, handle)
           /\ last' = Done("App", user_shader_paths, "ok",
                           << [call |-> "create_device", include_paths |-> shader_paths] >>
                               \o x.calls)
    /\ UNCHANGED <<variant, gui>>

\* The process that imports app.py and constructs App objects.
InitApp == InitOn({ << >> }) /\ variant = "imgui_adapter"
NextApp ==
    \E user_shader_paths \in UserShaderPaths, width \in Widths \ {0},
       height \in Heights \ {0}, handle \in Handles :
        NewApp(user_shader_paths, width, height, handle)
SpecApp == InitApp /\ [][NextApp]_vars

\* The keyboard alone: a constructed adapter that receives keyboard events,
\* straight from a caller or through App.on_keyboard_event.
InitKeys == InitOn({ << >> })
NextKeys ==
    \/ \E context \in BOOLEAN, width \in Widths \ {0}, height \in Heights \ {0} :
          Construct(context, width, height, MaxHandle)
    \/ \E event \in KeyboardEvents : KeyEvent(event)
    \/ \E event \in KeyboardEvents, codepoint \in {0, 65} :
          OnKeyboardEvent(event, codepoint)
SpecKeys == InitKeys /\ [][NextKeys]_vars

\* A device that has MaxFontHandle ids to give to font textures, the callers'
\* textures having the ids 1..MaxHandle, with frames of at most one command.
FontHandles == 1..MaxFontHandle
NextFont == NextOn(FontHandles, {DefaultScale})
SpecFont == InitState /\ [][NextFont]_vars

-----------------------------------------------------------------------------
(* Reading the call log of the last operation.                             *)

Indices(name) == { i \in 1..Len(last.calls) : last.calls[i].call = name }

DrawIndices == Indices("draw_indexed") \cup Indices("draw")

\* <<b, c>> positions of the commands of a draw data, and their order.
Positions(draw_data) ==
    { <<b, c>> : b \in 1..Len(draw_data), c \in 1..MaxCmds } \cap
    { p \in (1..MaxBatches) \X (1..MaxCmds) : p[2] <= Len(draw_data[p[1]]) }

Before(p, q) == p[1] < q[1] \/ (p[1] = q[1] /\ p[2] < q[2])

\* The commands of the rendered draw data whose texture id has no entry in
\* the mapping (render changes neither the ids nor the mapping).
UnregisteredPositions ==
    { p \in Positions(last.arg) :
        last.arg[p[1]][p[2]].texture_id \notin DictKeys(adapter.textures) }

RenderReturned == last.op = "render" /\ last.result = "ok"
RenderRaised == last.op = "render" /\ last.result = "ValueError"

-----------------------------------------------------------------------------
(* C1 *)

\* C1: render raises ValueError if and only if some command of the draw data
\* carries a texture id that is absent from the mapping, and raises it at the
\* first such command in batch order, then command order.
C1_ValueErrorIffUnregistered ==
    last.op = "render" =>
        /\ (last.result = "ValueError") <=> (UnregisteredPositions # {})
        /\ last.result = "ValueError" =>
              /\ last.error_at \in UnregisteredPositions
              /\ \A p \in UnregisteredPositions : ~Before(p, last.error_at)

\* The part of C1 that the code keeps: a render that reaches the batch loop
\* raises ValueError exactly at the first unregistered command.
C1_InTheBatchLoop ==
    (last.op = "render" /\ last.result \in {"ok", "ValueError"}) =>
        /\ (last.result = "ValueError") <=> (UnregisteredPositions # {})
        /\ last.result = "ValueError" =>
              /\ last.error_at \in UnregisteredPositions
              /\ \A p \in UnregisteredPositions : ~Before(p, last.error_at)

-----------------------------------------------------------------------------
(* C2 *)

\* C2 (state): the mapping has an entry for exactly the ids whose most recent
\* register / unregister call was a register, one entry per id, each entry a
\* texture of that id, paired with a sampler in imgui_adapter.py.
C2_MappingState ==
    /\ DictKeys(adapter.textures) = adapter.registered
    /\ \A e \in adapter.textures :
          /\ e.value.texture.handle = e.id
          /\ e.value.texture.kind \in {"user", "font"}
          /\ variant = "imgui_adapter" => e.value.sampler
          /\ \A f \in adapter.textures : f.id = e.id => f = e

\* C2 (steps): register_texture leaves the texture it was given under its id
\* and touches no other entry; unregister_texture of an id that has no entry
\* changes nothing and raises no error.
C2_MappingStep ==
    /\ last'.op = "register_texture" =>
          /\ DictGet(adapter'.textures, last'.arg.handle).texture = last'.arg
          /\ DictDel(adapter'.textures, last'.arg.handle)
                = DictDel(adapter.textures, last'.arg.handle)
          /\ last'.result = "ok"
    /\ (last'.op = "unregister_texture"
            /\ last'.arg.handle \notin DictKeys(adapter.textures)) =>
          /\ adapter'.textures = adapter.textures
          /\ last'.result = "ok"

\* C2: after any sequence of register_texture, unregister_texture and
\* refresh_font_texture calls the mapping holds exactly the ids last
\* registered, one (texture, sampler) entry each; a second registration
\* replaces the entry; unregistering an absent id is a no-op.
C2_Mapping == []C2_MappingState /\ [][C2_MappingStep]_vars

\* A caller's texture registered over the entry of the font texture, which has
\* the same id: the entry was replaced.
C2_Witness ==
    /\ last.op = "register_texture"
    /\ last.arg.handle = adapter.font_texture.handle
    /\ DictGet(adapter.textures, last.arg.handle).texture.kind = "user"
    /\ Cardinality(adapter.textures) = 1

-----------------------------------------------------------------------------
(* C3 *)

IndicesIn(calls, name) == { i \in 1..Len(calls) : calls[i].call = name }

\* The frame buffer and surface size resize(width, height, fb_scale) asks for.
ScaledSize(width, height, fb_scale) ==
    IF variant = "imgui_adapter"
    THEN <<width * fb_scale, height * fb_scale>>
    ELSE <<width, height>>

C3_ResizeStep ==
    last'.op = "resize" =>
        LET width == last'.arg[1]
            height == last'.arg[2]
            size == ScaledSize(width, height, last'.arg[3])
            calls == last'.calls
        IN  /\ adapter'.display_size = <<width, height>>
            /\ IF width > 0 /\ height > 0
               THEN /\ \E i \in 1..Len(calls) :
                          /\ IndicesIn(calls, "configure") = {i}
                          /\ calls[i].width = size[1] /\ calls[i].height = size[2]
                    /\ \E i \in 1..Len(calls) :
                          /\ IndicesIn(calls, "create_texture") = {i}
                          /\ calls[i].width = size[1] /\ calls[i].height = size[2]
                    /\ IndicesIn(calls, "unconfigure") = {}
                    /\ adapter'.surface_config =
                          [configured |-> TRUE, width |-> size[1], height |-> size[2]]
                    /\ adapter'.frame_buffer =
                          [exists |-> TRUE, width |-> size[1], height |-> size[2]]
               ELSE /\ Cardinality(IndicesIn(calls, "unconfigure")) = 1
                    /\ IndicesIn(calls, "configure") = {}
                    /\ IndicesIn(calls, "create_texture") = {}
                    /\ ~adapter'.surface_config.configured
                    /\ adapter'.frame_buffer = adapter.frame_buffer

\* C3: a resize with both dimensions positive reconfigures the surface and
\* creates a new frame buffer, both of width * fb_scale by height * fb_scale;
\* a resize with a zero dimension unconfigures the surface, creates no frame
\* buffer and keeps the previous one; both set the display size to
\* (width, height).
C3_Resize == [][C3_ResizeStep]_vars

\* A resize to a zero width after which the frame buffer of the last positive
\* size is still there.
C3_Witness ==
    /\ variant = "imgui_adapter"
    /\ last.op = "resize"
    /\ last.arg[1] = 0 /\ last.arg[2] > 0
    /\ ~adapter.surface_config.configured
    /\ adapter.frame_buffer.exists
    /\ adapter.frame_buffer.width = MaxWidth * DefaultFbScale

-----------------------------------------------------------------------------
(* C4 *)

ClearIndices ==
    { i \in Indices("begin_render_pass") : last.calls[i].load_op = "clear" }

\* C4: in a render that returns, the surface image is acquired first, the frame
\* buffer is cleared by exactly one pass that comes before every draw, every
\* draw is recorded in a pass that loads the frame buffer, and the calls end
\* with exactly one blit, one submission and one present, in this order, after
\* the last draw.
C4_FrameOrder ==
    (RenderReturned /\ variant = "imgui_adapter") =>
        LET n == Len(last.calls)
        IN  /\ Indices("acquire_next_image") = {1}
            /\ Cardinality(ClearIndices) = 1
            /\ \A k \in ClearIndices :
                  /\ \A d \in DrawIndices : k < d
                  /\ \A i \in Indices("begin_render_pass") \ {k} :
                        k < i /\ last.calls[i].load_op = "load"
            /\ \A d \in DrawIndices :
                  /\ d > 2
                  /\ last.calls[d - 2].call = "begin_render_pass"
                  /\ last.calls[d - 2].load_op = "load"
                  /\ d < n - 2
            /\ Indices("blit") = {n - 2}
            /\ Indices("submit_command_buffer") = {n - 1}
            /\ Indices("present") = {n}

\* A frame of two batches with three draws in all, rendered to the end.
C4_Witness ==
    /\ RenderReturned
    /\ variant = "imgui_adapter"
    /\ Len(last.arg) = 2
    /\ Cardinality(DrawIndices) = 3

-----------------------------------------------------------------------------
(* C5 *)

\* The positions of the draws in the call log.
DrawnPositions == { <<last.calls[d].batch, last.calls[d].cmd>> : d \in DrawIndices }

\* C5: a render that raises issues no blit, no submission and no present; when
\* it raises ValueError the draws recorded are exactly those of the commands
\* before the failing one, each once, and the failing command and every later
\* command and batch is not drawn.
C5_ErrorAbortsFrame ==
    /\ (last.op = "render" /\ last.result # "ok") =>
          /\ Indices("blit") = {}
          /\ Indices("submit_command_buffer") = {}
          /\ Indices("present") = {}
    /\ RenderRaised =>
          /\ DrawnPositions = { p \in Positions(last.arg) : Before(p, last.error_at) }
          /\ Cardinality(DrawIndices) = Cardinality(DrawnPositions)

\* ValueError at the first command of the second batch, after two draws, with
\* a registered command behind the failing one.
C5_Witness ==
    /\ RenderRaised
    /\ last.error_at = <<2, 1>>
    /\ Cardinality(DrawIndices) = 2
    /\ Len(last.arg[2]) = 2
    /\ last.arg[2][2].texture_id \in DictKeys(adapter.textures)

-----------------------------------------------------------------------------
(* C6 *)

PositionOf(d) == <<last.calls[d].batch, last.calls[d].cmd>>

BuffersOf(b, label) ==
    { i \in Indices("create_buffer") :
        last.calls[i].batch = b /\ last.calls[i].label = label }

\* C6 as stated: a render that returns issues one draw call for each batch, so
\* as many draw calls as the draw data has batches.
C6_OneDrawPerBatch ==
    RenderReturned =>
        /\ Cardinality(DrawIndices) = Len(last.arg)
        /\ \A b \in 1..Len(last.arg) :
              Cardinality({ d \in DrawIndices : last.calls[d].batch = b }) = 1

\* C6 amended: a render that returns issues one draw call for each draw
\* command, in batch order then command order, so as many draw calls as the
\* draw data has commands; what it does once for each batch is the creation of
\* the vertex buffer and of the index buffer, ahead of the draws of the batch.
\* The draw call is draw_indexed in imgui_adapter.py and draw in imgui_bundle.py.
C6_OneDrawPerCommand ==
    RenderReturned =>
        /\ DrawnPositions = Positions(last.arg)
        /\ Cardinality(DrawIndices) = Cardinality(Positions(last.arg))
        /\ \A d1, d2 \in DrawIndices : d1 < d2 => Before(PositionOf(d1), PositionOf(d2))
        /\ \A d \in DrawIndices :
              last.calls[d].call =
                  IF variant = "imgui_adapter" THEN "draw_indexed" ELSE "draw"
        /\ Cardinality(Indices("create_buffer")) = 2 * Len(last.arg)
        /\ \A b \in 1..Len(last.arg) :
              /\ Cardinality(BuffersOf(b, "imgui_vertex_buffer")) = 1
              /\ Cardinality(BuffersOf(b, "imgui_index_buffer")) = 1
              /\ \A i \in Indices("create_buffer"), d \in DrawIndices :
                    (last.calls[i].batch = b /\ last.calls[d].batch = b) => i < d

\* One batch of two commands rendered with two draw calls.
C6_Witness ==
    /\ RenderReturned
    /\ Len(last.arg) = 1
    /\ Len(last.arg[1]) = 2
    /\ Cardinality(DrawIndices) = 2

-----------------------------------------------------------------------------
(* C7 *)

\* The integer a float, counted in halves, truncates to.
TowardZero(v) ==
    CHOOSE n \in -MaxCoord..MaxCoord :
        IF v >= 0 THEN 2 * n <= v /\ v < 2 * n + 2
                  ELSE v <= 2 * n /\ 2 * n - 2 < v

TruncatedRect(r) ==
    << TowardZero(r[1]), TowardZero(r[2]), TowardZero(r[3]), TowardZero(r[4]) >>

\* The viewport that covers a clip rectangle.
ViewportOfRect(r) ==
    [x |-> TowardZero(r[1]), y |-> TowardZero(r[2]),
     width |-> TowardZero(r[3]) - TowardZero(r[1]),
     height |-> TowardZero(r[4]) - TowardZero(r[2])]

\* C7 as stated: for every draw, the scissor rectangle is the clip rectangle of
\* the command (as the command holds it at the draw) truncated to integers, and
\* the viewport is computed from that clip rectangle.
C7_ScissorAndViewportFromClipRect ==
    last.op = "render" =>
        \A i \in Indices("set_render_state") :
            LET s == last.calls[i]
                rect == last.draw_data[s.batch][s.cmd].clip_rect
            IN  /\ s.scissor = TruncatedRect(rect)
                /\ s.viewport = ViewportOfRect(rect)

\* The factor render() multiplies the clip rectangles of its argument by.
ClipScale ==
    IF variant = "imgui_adapter" THEN adapter.display_framebuffer_scale ELSE 1

\* C7 amended: for every draw, the scissor rectangle is the clip rectangle of
\* the command truncated toward zero, after render has multiplied the clip
\* rectangles of the draw data it was given by the display framebuffer scale
\* (imgui_adapter.py; imgui_bundle.py does not scale); the viewport is not
\* computed from the clip rectangle: it is the whole frame buffer, from (0, 0)
\* to its width and height, for every draw.
C7_ScissorFromClipRectViewportFromFrameBuffer ==
    last.op = "render" =>
        \A i \in Indices("set_render_state") :
            LET s == last.calls[i]
                given == last.arg[s.batch][s.cmd].clip_rect
            IN  /\ s.scissor = TruncatedRect([k \in 1..4 |-> given[k] * ClipScale])
                /\ s.viewport = [x |-> 0, y |-> 0,
                                 width |-> adapter.frame_buffer.width,
                                 height |-> adapter.frame_buffer.height]

\* Two draws of one frame with different scissor rectangles and one viewport,
\* the scissor of the first being the clip rectangle (-0.5, 0.5, 1.5, 2.5)
\* times four.
C7_Witness ==
    /\ RenderReturned
    /\ variant = "imgui_adapter"
    /\ last.arg = << << [texture_id |-> 1, clip_rect |-> <<-1, 1, 3, 5>>],
                        [texture_id |-> 2, clip_rect |-> <<-2, 1, 5, 7>>] >> >>
    /\ \E i, j \in Indices("set_render_state") :
          /\ last.calls[i].scissor = <<-2, 2, 6, 10>>
          /\ last.calls[j].scissor = <<-4, 2, 10, 14>>
          /\ last.calls[i].viewport = last.calls[j].viewport
          /\ last.calls[i].viewport.width = 2 * DefaultFbScale

-----------------------------------------------------------------------------
(* C8 *)

\* The calls that configure or unconfigure the surface.
SurfaceIndices == Indices("configure") \cup Indices("unconfigure")

\* The creations of a frame buffer.
FrameBufferIndices ==
    { i \in Indices("create_texture") : last.calls[i].label = "output_texture" }

WaitBefore(i) == \E j \in Indices("wait") : j < i

\* C8 as stated: every call that configures or unconfigures the surface, in
\* the constructor or in resize, comes after a device wait of the same
\* operation.
C8_WaitBeforeEveryConfigure ==
    \A i \in SurfaceIndices : WaitBefore(i)

\* C8 amended: every configure and unconfigure call of resize, and of the
\* resize call that ends the constructor, comes after the device wait of that
\* resize; the constructor of imgui_bundle.py configures the surface and
\* creates a frame buffer once more, first, before any wait, at a time when
\* the adapter has submitted no GPU work.  So no surface call and no frame
\* buffer creation happens while work submitted by the adapter is not waited
\* for.
C8_WaitBeforeReconfigure ==
    /\ \A i \in SurfaceIndices \cup FrameBufferIndices : ~last.calls[i].pending
    /\ (last.op = "resize" \/ variant = "imgui_adapter") =>
          \A i \in SurfaceIndices \cup FrameBufferIndices : WaitBefore(i)
    /\ (last.op = "__init__" /\ last.result = "ok" /\ variant = "imgui_bundle") =>
          \E first, second \in Indices("configure") :
              /\ Indices("configure") = {first, second}
              /\ first < second
              /\ ~WaitBefore(first)
              /\ WaitBefore(second)

\* A resize to a positive size whose wait found submitted work outstanding.
C8_Witness ==
    /\ last.op = "resize"
    /\ last.calls[1].call = "wait"
    /\ last.calls[1].pending
    /\ Indices("configure") = {2}
    /\ ~adapter.pending

-----------------------------------------------------------------------------
(* C9 *)

\* C9 as stated: when render returns, the command buffer it submitted has been
\* waited for: no work submitted by render is outstanding.
C9_RenderWaits ==
    RenderReturned => ~adapter.pending

\* C9 amended: every operation issues its GPU calls in the calling thread, but
\* render does not wait for the command buffer it submits: when it returns the
\* work is outstanding.  The only wait is the device wait at the start of
\* resize (and so of the constructor), after which nothing the adapter
\* submitted is outstanding; no other operation waits.
C9_OnlyResizeWaits ==
    /\ RenderReturned =>
          /\ adapter.pending
          /\ Cardinality(Indices("submit_command_buffer")) = 1
    /\ (last.op = "resize" \/ (last.op = "__init__" /\ last.result = "ok")) =>
          /\ Cardinality(Indices("wait")) = 1
          /\ ~adapter.pending
    /\ last.op \notin {"resize", "__init__"} => Indices("wait") = {}

\* A render that has returned with its command buffer submitted and not
\* waited for.
C9_Witness ==
    /\ RenderReturned
    /\ adapter.pending
    /\ Indices("wait") = {}
    /\ Indices("submit_command_buffer") # {}

-----------------------------------------------------------------------------
(* C10 *)

\* C10 as stated: the only error the adapter's own code raises is the
\* ValueError of render (SurfaceError is the GPU library's).
C10_SingleErrorKind ==
    \/ last.result \in {"ok", "SurfaceError"}
    \/ RenderRaised

ZeroDisplay == adapter.display_size[1] = 0 \/ adapter.display_size[2] = 0

\* C10 amended: the adapter's own code raises three errors: RuntimeError from
\* the constructor of imgui_adapter.py when there is no current GUI context,
\* ValueError from render at a command with an unregistered texture id, and
\* ZeroDivisionError from render when the display width or height is zero;
\* register_texture, unregister_texture, refresh_font_texture, resize and the
\* input handlers raise nothing.
C10_ErrorKinds ==
    /\ last.op = "__init__" =>
          /\ last.result \in {"ok", "RuntimeError"}
          /\ last.result = "RuntimeError" => (variant = "imgui_adapter" /\ ~constructed)
    /\ last.op = "render" =>
          /\ last.result \in {"ok", "ValueError", "ZeroDivisionError", "SurfaceError"}
          /\ last.result = "ValueError" => (UnregisteredPositions # {} /\ ~ZeroDisplay)
          /\ last.result = "ZeroDivisionError" => ZeroDisplay
          /\ last.result = "SurfaceError" => ~adapter.surface_config.configured
          /\ last.result = "ok" => (UnregisteredPositions = {} /\ ~ZeroDisplay)
    /\ last.op \notin {"__init__", "render"} => last.result = "ok"

\* The constructor has raised RuntimeError: no adapter was made.
C10_Witness ==
    /\ last.op = "__init__"
    /\ last.result = "RuntimeError"
    /\ ~constructed

-----------------------------------------------------------------------------
(* C11 *)

\* C11: in the main loop, render acquires a surface image only while the
\* surface is configured and a frame buffer exists: after a resize with a zero
\* width or height no render is attempted until a resize with positive
\* dimensions has configured the surface again.
C11_RenderOnlyWhenConfigured ==
    last.op = "render" =>
        \A i \in Indices("acquire_next_image") :
            /\ last.calls[i].configured
            /\ last.calls[i].frame_buffer

\* What the main loop does after a resize with a zero dimension: the render
\* is attempted on the unconfigured surface and does not complete.
C11_RenderOfZeroSizeFails ==
    (last.op = "render" /\ ~adapter.surface_config.configured) =>
        /\ Indices("acquire_next_image") = {1}
        /\ last.result \in {"SurfaceError", "ZeroDivisionError"}
        /\ ZeroDisplay

-----------------------------------------------------------------------------
(* C12 *)

C12_RenderStep ==
    last'.op = "render" =>
        /\ adapter'.textures = adapter.textures
        /\ adapter'.frame_buffer = adapter.frame_buffer
        /\ adapter'.surface_config = adapter.surface_config
        /\ adapter'.font_texture = adapter.font_texture
        /\ adapter'.tex_id = adapter.tex_id
        /\ adapter'.display_size = adapter.display_size
        /\ adapter'.display_framebuffer_scale = adapter.display_framebuffer_scale
        /\ \A i \in 1..Len(last'.calls) :
              last'.calls[i].call \notin
                  {"configure", "unconfigure", "create_texture", "create_sampler"}

\* C12: whether render returns or raises, the texture mapping, the frame
\* buffer, the surface configuration, the font texture and the display size
\* and framebuffer scale are after the call what they were before it, and the
\* call creates no texture and no sampler and does not touch the surface
\* configuration, for any draw data.
C12_RenderKeepsAdapter == [][C12_RenderStep]_vars

\* A render that raised ValueError at its second batch, after it had drawn,
\* with the font texture in the mapping and a configured surface.
C12_Witness ==
    /\ RenderRaised
    /\ last.error_at[1] = 2
    /\ DrawIndices # {}
    /\ DictHas(adapter.textures, adapter.font_texture.handle)
    /\ adapter.font_texture # NoTexture
    /\ adapter.surface_config.configured
    /\ adapter.frame_buffer.exists

-----------------------------------------------------------------------------
(* C14 *)

\* C14: after construction and any sequence of resize calls, whenever the
\* surface is configured the frame buffer exists and has the width and height
\* the surface was last configured with; a render that reaches its blit finds
\* the surface configured, so it copies between a frame buffer and a surface
\* of the same size.
C14_FrameBufferMatchesSurface ==
    /\ (constructed /\ adapter.surface_config.configured) =>
          /\ adapter.frame_buffer.exists
          /\ adapter.frame_buffer.width = adapter.surface_config.width
          /\ adapter.frame_buffer.height = adapter.surface_config.height
    /\ (last.op = "render" /\ Indices("blit") # {}) =>
          /\ adapter.surface_config.configured
          /\ adapter.frame_buffer.exists
          /\ adapter.frame_buffer.width = adapter.surface_config.width
          /\ adapter.frame_buffer.height = adapter.surface_config.height

\* A frame blitted from a frame buffer whose width differs from its height,
\* after a resize that passed a framebuffer scale of its own.
C14_Witness ==
    /\ RenderReturned
    /\ Indices("blit") # {}
    /\ adapter.surface_config.configured
    /\ adapter.frame_buffer.width = MaxWidth * adapter.display_framebuffer_scale
    /\ adapter.frame_buffer.height = MaxHeight * adapter.display_framebuffer_scale
    /\ adapter.frame_buffer.width # adapter.frame_buffer.height
    /\ variant = "imgui_adapter"
    /\ adapter.display_framebuffer_scale # DefaultFbScale

-----------------------------------------------------------------------------
(* C16 *)

\* The scissor rectangles a render set, by command position.
ScissorsOf(calls) ==
    { [batch |-> calls[i].batch, cmd |-> calls[i].cmd, scissor |-> calls[i].scissor] :
        i \in IndicesIn(calls, "set_render_state") }

\* A render of the draw data object the render before it was given.
SameDrawDataAgain ==
    /\ last.op = "render"
    /\ last'.op = "render"
    /\ last'.arg = last.draw_data

C16_SameScissorStep ==
    SameDrawDataAgain =>
        \A s \in ScissorsOf(last.calls), t \in ScissorsOf(last'.calls) :
            (s.batch = t.batch /\ s.cmd = t.cmd) => s.scissor = t.scissor

\* C16: render does not change the draw data it is given: of two render calls
\* in a row on the same draw data object, the second sets for each command the
\* scissor rectangle the first set.
C16_SameScissorTwice == [][C16_SameScissorStep]_vars

C16_ScaledAgainStep ==
    SameDrawDataAgain =>
        /\ last.result \in {"ok", "ValueError"} =>
              last.draw_data = scale_clip_rects(last.arg, ClipScale)
        /\ \A s \in ScissorsOf(last.calls), t \in ScissorsOf(last'.calls) :
              (s.batch = t.batch /\ s.cmd = t.cmd) =>
                  t.scissor = [k \in 1..4 |-> s.scissor[k] * ClipScale]

\* What the code does instead: a render that gets past the projection leaves
\* every clip rectangle of its argument multiplied by the display framebuffer
\* scale, so the second render sets each scissor rectangle of the first
\* multiplied by the scale once more.
C16_ScissorScaledAgain == [][C16_ScaledAgainStep]_vars

-----------------------------------------------------------------------------
(* C13 *)

C13_FontState ==
    (constructed /\ history.distinct) =>
        LET font_id == adapter.font_texture.handle
        IN  /\ adapter.font_texture.kind = "font"
            /\ DictHas(adapter.textures, font_id)
            /\ DictGet(adapter.textures, font_id).texture = adapter.font_texture
            /\ adapter.tex_id = font_id
            /\ font_id \in history.font_ids
            /\ (history.font_ids \ {font_id}) \cap DictKeys(adapter.textures) = {}

C13_FontStep ==
    (last'.op = "refresh_font_texture" /\ history'.distinct) =>
        /\ Cardinality(adapter'.textures) = Cardinality(adapter.textures)
        /\ adapter'.font_texture.handle \notin history.font_ids
        /\ adapter.font_texture.handle \notin DictKeys(adapter'.textures)

\* C13: as long as distinct textures have had distinct ids, after construction
\* and after any refresh_font_texture calls, interleaved with registrations
\* and unregistrations of the callers' textures, the mapping holds the id of
\* the current font texture, that id is the font atlas texture id of the GUI,
\* the id of no earlier font texture is in the mapping, and a refresh leaves
\* the mapping with as many entries as it had.
C13_FontTexture == []C13_FontState /\ [][C13_FontStep]_vars

\* A refresh with a caller's texture registered, all ids distinct: two font
\* textures so far, two entries in the mapping, the earlier font id not one.
C13_Witness ==
    /\ last.op = "refresh_font_texture"
    /\ history.distinct
    /\ Cardinality(history.font_ids) = 2
    /\ history.font_ids \cap DictKeys(adapter.textures) = {adapter.font_texture.handle}
    /\ \E e \in adapter.textures : e.value.texture.kind = "user"
    /\ Cardinality(adapter.textures) = 2

-----------------------------------------------------------------------------
(* C15 *)

KeyOps == {"key_event", "on_keyboard_event"}

\* C15: for every key of REVERSE_KEY_MAP, the key state last reported to the
\* GUI is down exactly when the most recent press or release event for the key
\* was a press (a repeat event in between does not release the key), and a key
\* outside REVERSE_KEY_MAP is never forwarded.
C15_DownWhilePressed ==
    /\ \A k \in TrackedKeys :
          (history.reported[k] = "down") <=> (history.event[k] = "key_press")
    /\ (last.op \in KeyOps /\ last.arg.key \notin DOMAIN ReverseKeyMap) =>
          Indices("add_key_event") = {}

C15_KeyStep ==
    last'.op \in KeyOps =>
        LET event == last'.arg
            forwarded == IndicesIn(last'.calls, "add_key_event")
        IN  IF event.key \in DOMAIN ReverseKeyMap
            THEN /\ Cardinality(forwarded) = 1
                 /\ \A i \in forwarded :
                       /\ last'.calls[i].key = ReverseKeyMap[event.key]
                       /\ last'.calls[i].down <=> (event.type = "key_press")
                 /\ \A k \in TrackedKeys \ {event.key} :
                       history'.reported[k] = history.reported[k]
            ELSE /\ forwarded = {}
                 /\ history'.reported = history.reported

\* What the code does instead: every event for a key of REVERSE_KEY_MAP is
\* forwarded, as down when it is a press and as up otherwise, so a repeat
\* event reports the held key as up; other keys are not forwarded.
C15_DownOnlyAtPress == [][C15_KeyStep]_vars

-----------------------------------------------------------------------------
(* C17 *)

\* C17: constructing an App leaves the class-level default shader path list
\* as it was, and the include paths given to the device of each new App are
\* the default shader paths followed by the user_shader_paths of that App,
\* never a path given to an earlier App.
C17_DefaultPathsKept ==
    /\ app.shader_paths = << GuiShaderPath >>
    /\ last.op = "App" =>
          /\ app.include_paths = << GuiShaderPath >> \o last.arg
          /\ \A i \in Indices("create_device") :
                last.calls[i].include_paths = << GuiShaderPath >> \o last.arg

C17_AppStep ==
    last'.op = "App" =>
        /\ app'.shader_paths = app.shader_paths \o last'.arg
        /\ app'.include_paths = app'.shader_paths
        /\ \A i \in IndicesIn(last'.calls, "create_device") :
              last'.calls[i].include_paths = app.shader_paths \o last'.arg

\* What the code does instead: each construction appends its
\* user_shader_paths to the list of the class, and the device gets the whole
\* list: the default path, the paths of every earlier App, then its own.
C17_PathsAccumulate == [][C17_AppStep]_vars

====
